---- MODULE Spec2Model ----
(***************************************************************************)
(* Model of src/main.py: the sheet-driven order sizing job.                *)
(*                                                                         *)
(* Python values are represented as follows.                               *)
(*   str             a sequence of one-character strings, "" is << >>      *)
(*   None (for str)  PyNone, a sequence that is no string over Chars       *)
(*   Optional[float] a record [k, n, d]: k = "none" is None, k = "nan" is  *)
(*                   the float NaN, k = "num" is the number n/d in lowest  *)
(*                   terms with d > 0.  Arithmetic is exact; the binary    *)
(*                   rounding of IEEE doubles is not modelled.             *)
(***************************************************************************)
EXTENDS Integers, Sequences, FiniteSets, TLC

----------------------------------------------------------------------------
(* Exact arithmetic standing for Python float arithmetic. *)

Abs(x) == IF x < 0 THEN -x ELSE x

RECURSIVE Gcd(_, _)
Gcd(a, b) == IF b = 0 THEN a ELSE Gcd(b, a % b)

None == [k |-> "none", n |-> 0, d |-> 1]

NaN == [k |-> "nan", n |-> 0, d |-> 1]

\* The float n/d, in lowest terms (d # 0).
Num(n, d) ==
    LET g == Gcd(Abs(n), Abs(d))
        s == IF d < 0 THEN -1 ELSE 1
    IN  [k |-> "num", n |-> (s * n) \div g, d |-> (s * d) \div g]

IsNone(x) == x.k = "none"

IsNaN(x) == x.k = "nan"

\* x * y on floats: NaN propagates.
Mul(x, y) ==
    IF IsNaN(x) \/ IsNaN(y) THEN NaN ELSE Num(x.n * y.n, x.d * y.d)

\* x / y on floats, y # 0: NaN propagates.
Div(x, y) ==
    IF IsNaN(x) \/ IsNaN(y) THEN NaN ELSE Num(x.n * y.d, x.d * y.n)

\* x < y on floats: every comparison with NaN is False.
Lt(x, y) == ~IsNaN(x) /\ ~IsNaN(y) /\ x.n * y.d < y.n * x.d

\* x <= y on floats.
Le(x, y) == ~IsNaN(x) /\ ~IsNaN(y) /\ x.n * y.d <= y.n * x.d

\* x > y on floats.
Gt(x, y) == Lt(y, x)

\* round(x, 2): to the nearest hundredth, ties to the even hundredth.
Round2(x) ==
    IF IsNaN(x) THEN NaN
    ELSE LET m == x.n * 100
             q == m \div x.d
             r == m % x.d
             c == IF 2 * r > x.d THEN q + 1
                  ELSE IF 2 * r < x.d THEN q
                  ELSE IF q % 2 = 0 THEN q ELSE q + 1
         IN  Num(c, 100)

----------------------------------------------------------------------------
(* Strings. *)

PyNone == <<"None">>

Digits == {"0", "1", "2", "3", "4", "5", "6", "7", "8", "9"}

DigitVal(c) ==
    CASE c = "0" -> 0 [] c = "1" -> 1 [] c = "2" -> 2 [] c = "3" -> 3
      [] c = "4" -> 4 [] c = "5" -> 5 [] c = "6" -> 6 [] c = "7" -> 7
      [] c = "8" -> 8 [] c = "9" -> 9

\* The characters whitespace-stripping removes.
Whitespace == {" "}

\* The five recognised icons, each one character.
Gem == "U+1F48E"

Boom == "U+1F4A5"

Rocket == "U+1F680"

Sparkles == "U+2728"

Chart == "U+1F4CA"

\* The alphabet the modelled cells are written in.
Chars ==
    Digits \cup Whitespace
        \cup {"%", "+", "-", ".", "a", "b", "c", "n", "A", "B", "C", "N", "X"}
        \cup {Gem, Boom, Rocket, Sparkles, Chart}

\* str.upper(), one character.
UpperChar(c) ==
    CASE c = "a" -> "A" [] c = "b" -> "B" [] c = "c" -> "C" [] c = "n" -> "N"
      [] OTHER -> c

\* str.lower(), one character.
LowerChar(c) ==
    CASE c = "A" -> "a" [] c = "B" -> "b" [] c = "C" -> "c" [] c = "N" -> "n"
      [] OTHER -> c

Upper(s) == [i \in 1..Len(s) |-> UpperChar(s[i])]

Lower(s) == [i \in 1..Len(s) |-> LowerChar(s[i])]

RECURSIVE LStrip(_)
LStrip(s) ==
    IF s # << >> /\ Head(s) \in Whitespace THEN LStrip(Tail(s)) ELSE s

RECURSIVE RStrip(_)
RStrip(s) ==
    IF s # << >> /\ s[Len(s)] \in Whitespace
    THEN RStrip(SubSeq(s, 1, Len(s) - 1))
    ELSE s

\* str.strip()
Strip(s) == RStrip(LStrip(s))

\* str.replace(c, "")
Remove(s, c) == SelectSeq(s, LAMBDA x : x # c)

\* str(value): a string is itself, None is the text "None".
Str(v) == IF v = PyNone THEN <<"N", "o", "n", "e">> ELSE v

----------------------------------------------------------------------------
(* float(text), for texts over Chars: optional surrounding whitespace, an   *)
(* optional sign, then "nan" in any case or decimal digits with at most one *)
(* point and at least one digit.  ValueError is returned as None.           *)

IsDigits(s) == \A i \in 1..Len(s) : s[i] \in Digits

RECURSIVE DigitsVal(_)
DigitsVal(s) ==
    IF s = << >> THEN 0
    ELSE 10 * DigitsVal(SubSeq(s, 1, Len(s) - 1)) + DigitVal(s[Len(s)])

RECURSIVE Pow10(_)
Pow10(k) == IF k = 0 THEN 1 ELSE 10 * Pow10(k - 1)

\* The unsigned decimal m: digits, at most one point, at least one digit.
ParseDecimal(m) ==
    LET dots == {i \in 1..Len(m) : m[i] = "."}
        ds   == Remove(m, ".")
    IN  IF Cardinality(dots) > 1 \/ ds = << >> \/ ~IsDigits(ds) THEN None
        ELSE LET frac == IF dots = {} THEN 0
                         ELSE Len(m) - (CHOOSE i \in dots : TRUE)
             IN  Num(DigitsVal(ds), Pow10(frac))

ParseFloat(text) ==
    LET t    == Strip(text)
        sgn  == IF t # << >> /\ Head(t) = "-" THEN -1 ELSE 1
        body == IF t # << >> /\ Head(t) \in {"+", "-"} THEN Tail(t) ELSE t
    IN  IF Lower(body) = <<"n", "a", "n">> THEN NaN
        ELSE LET v == ParseDecimal(body)
             IN  IF IsNone(v) THEN None ELSE Num(sgn * v.n, v.d)

\* safe_float
safe_float(value) ==
    IF value = PyNone THEN None
    ELSE LET stripped == Strip(Str(value))
         IN  IF stripped = << >> THEN None
             ELSE ParseFloat(Remove(stripped, "%"))

----------------------------------------------------------------------------
(* Core allocation logic. *)

\* ICON_MULTIPLIERS, as a function on its five keys.
IconKeys == {<<Gem>>, <<Boom>>, <<Rocket>>, <<Sparkles>>, <<Chart>>}

ICON_MULTIPLIERS ==
    [key \in IconKeys |->
        CASE key = <<Gem>>      -> Num(10, 10)
          [] key = <<Boom>>     -> Num(9, 10)
          [] key = <<Rocket>>   -> Num(8, 10)
          [] key = <<Sparkles>> -> Num(7, 10)
          [] key = <<Chart>>    -> Num(6, 10)]

\* get_bracket_pct with the upper end of each bracket excluded.
get_bracket_pct_OpenUpper(percent_down) ==
    IF Lt(percent_down, Num(0, 1)) THEN None
    ELSE IF Le(Num(0, 1), percent_down) /\ Lt(percent_down, Num(25, 1))
         THEN Num(5, 100)
    ELSE IF Le(Num(25, 1), percent_down) /\ Lt(percent_down, Num(50, 1))
         THEN Num(10, 100)
    ELSE IF Le(Num(50, 1), percent_down) /\ Lt(percent_down, Num(75, 1))
         THEN Num(15, 100)
    ELSE Num(20, 100)

\* get_bracket_pct
get_bracket_pct(percent_down) ==
    IF Lt(percent_down, Num(0, 1)) THEN None
    ELSE IF Le(Num(0, 1), percent_down) /\ Le(percent_down, Num(25, 1))
         THEN Num(5, 100)
    ELSE IF Lt(Num(25, 1), percent_down) /\ Le(percent_down, Num(50, 1))
         THEN Num(10, 100)
    ELSE IF Lt(Num(50, 1), percent_down) /\ Le(percent_down, Num(75, 1))
         THEN Num(15, 100)
    ELSE Num(20, 100)

\* compute_order_notional, the sentiment multiplier, with 0 accepted.
sentiment_mult_NonNegative(sentiment_raw) ==
    LET s_val == safe_float(sentiment_raw)
    IN  IF sentiment_raw # PyNone
           /\ Strip(Str(sentiment_raw)) # << >>
           /\ ~IsNone(s_val) /\ Le(Num(0, 1), s_val)
        THEN s_val
        ELSE Num(1, 10)

\* compute_order_notional: the sentiment multiplier.
sentiment_mult(sentiment_raw) ==
    LET s_val == safe_float(sentiment_raw)
    IN  IF sentiment_raw # PyNone
           /\ Strip(Str(sentiment_raw)) # << >>
           /\ ~IsNone(s_val) /\ Gt(s_val, Num(0, 1))
        THEN s_val
        ELSE Num(1, 10)

\* compute_order_notional with an unrecognised icon given the lowest
\* multiplier instead of a skip.
compute_order_notional_IconDefault(buying_power, percent_down, icon, long_ma, price, sentiment_raw) ==
    LET bracket_pct == get_bracket_pct(percent_down)
        icon1 == Strip(IF icon = PyNone \/ icon = << >> THEN << >> ELSE icon)
    IN  IF IsNone(bracket_pct) THEN None
        ELSE IF Le(price, Num(0, 1)) THEN None
        ELSE LET icon_mult == IF icon1 \in IconKeys
                              THEN ICON_MULTIPLIERS[icon1] ELSE Num(6, 10)
                 ma_price_factor == Div(long_ma, price)
                 base_alloc == Mul(buying_power, bracket_pct)
             IN  Mul(Mul(Mul(base_alloc, icon_mult), ma_price_factor),
                     sentiment_mult(sentiment_raw))

\* compute_order_notional with the ratio taken as price / long_ma.
compute_order_notional_PriceOverMA(buying_power, percent_down, icon, long_ma, price, sentiment_raw) ==
    LET bracket_pct == get_bracket_pct(percent_down)
        icon1 == Strip(IF icon = PyNone \/ icon = << >> THEN << >> ELSE icon)
    IN  IF IsNone(bracket_pct) THEN None
        ELSE IF icon1 \notin IconKeys THEN None
        ELSE IF Le(price, Num(0, 1)) THEN None
        ELSE IF ~IsNaN(long_ma) /\ long_ma.n = 0 THEN NaN
        ELSE LET icon_mult == ICON_MULTIPLIERS[icon1]
                 ma_price_factor == Div(price, long_ma)
                 base_alloc == Mul(buying_power, bracket_pct)
             IN  Mul(Mul(Mul(base_alloc, icon_mult), ma_price_factor),
                     sentiment_mult(sentiment_raw))

\* compute_order_notional
compute_order_notional(buying_power, percent_down, icon, long_ma, price, sentiment_raw) ==
    LET bracket_pct == get_bracket_pct(percent_down)
        icon1 == Strip(IF icon = PyNone \/ icon = << >> THEN << >> ELSE icon)
    IN  IF IsNone(bracket_pct) THEN None
        ELSE IF icon1 \notin IconKeys THEN None
        ELSE IF Le(price, Num(0, 1)) THEN None
        ELSE LET icon_mult == ICON_MULTIPLIERS[icon1]
                 ma_price_factor == Div(long_ma, price)
                 base_alloc == Mul(buying_power, bracket_pct)
             IN  Mul(Mul(Mul(base_alloc, icon_mult), ma_price_factor),
                     sentiment_mult(sentiment_raw))

----------------------------------------------------------------------------
(* Bounds and input sets. *)

\* Most data rows in a sheet.
MaxRows == 3

\* Largest percent-down of the bracket sweep, in whole percent.
MaxPct == 101

\* Column indices (0-based) of run_bot.
COL_TICKER == 0

COL_PRICE == 1

COL_PCT_DOWN == 2

COL_LONG_MA == 9

COL_ICON == 15

COL_SENTIMENT == 16

MIN_NOTIONAL == Num(1, 1)

\* A full-width sheet row with the six consumed cells set.
MkRow(sym, price, pct, ma, icon, sent) ==
    [i \in 1..17 |->
        CASE i = COL_TICKER + 1    -> sym
          [] i = COL_PRICE + 1     -> price
          [] i = COL_PCT_DOWN + 1  -> pct
          [] i = COL_LONG_MA + 1   -> ma
          [] i = COL_ICON + 1      -> icon
          [] i = COL_SENTIMENT + 1 -> sent
          [] OTHER                 -> << >>]

\* The first k cells of a row: a row the sheet returns shorter.
Short(row, k) == SubSeq(row, 1, k)

RowGood ==
    MkRow(<<"A", "B", "C">>, <<"1", "0", "0">>, <<"1", "0">>,
          <<"1", "1", "0">>, <<Gem>>, <<"2">>)

RowGoodLower ==
    Short(MkRow(<<" ", "a", "b", "c", " ">>, <<"2", "0", "0">>,
                <<"6", "0", "%">>, <<"5", "0">>, <<" ", Sparkles>>, << >>), 16)

RowOther ==
    MkRow(<<"B", "N">>, <<"7", "0">>, <<"3", "0">>, <<"5", "0">>,
          <<Boom>>, <<"a", "b", "c">>)

RowNoSymbol ==
    MkRow(<<" ">>, <<"1", "0", "0">>, <<"1", "0">>, <<"1", "1", "0">>,
          <<Gem>>, <<"2">>)

RowNoPrice ==
    MkRow(<<"A", "B", "C">>, << >>, <<"1", "0">>, <<"1", "1", "0">>,
          <<Gem>>, <<"2">>)

RowBadIcon ==
    MkRow(<<"B", "N">>, <<"1", "0", "0">>, <<"1", "0">>, <<"1", "1", "0">>,
          <<"X">>, <<"2">>)

RowNoIconColumn == Short(RowGood, 10)

RowNegativePct ==
    MkRow(<<"B", "N">>, <<"1", "0", "0">>, <<"-", "5">>, <<"1", "1", "0">>,
          <<Gem>>, <<"2">>)

\* With buying power 100000: 100000 * 0.05 * 1.0 * (1/50) * 0.01 = 1.0
RowAtFloor ==
    MkRow(<<"B", "N">>, <<"5", "0">>, <<"1", "0">>, <<"1">>,
          <<Gem>>, <<"0", ".", "0", "1">>)

\* With buying power 100000: 100000 * 0.05 * 1.0 * (0.999/50) * 0.01 = 0.999
RowBelowFloor ==
    MkRow(<<"B", "N">>, <<"5", "0">>, <<"1", "0">>,
          <<"0", ".", "9", "9", "9">>, <<Gem>>, <<"0", ".", "0", "1">>)

RowNaNPrice ==
    MkRow(<<"A", "B", "C">>, <<"n", "a", "n">>, <<"1", "0">>,
          <<"1", "1", "0">>, <<Gem>>, <<"2">>)

RowSet ==
    {RowGood, RowGoodLower, RowOther, RowNoSymbol, RowNoPrice, RowBadIcon,
     RowNoIconColumn, RowNegativePct, RowAtFloor, RowBelowFloor, RowNaNPrice}

Header == <<<<"T">>>>

RECURSIVE SeqsUpTo(_, _)
SeqsUpTo(S, k) ==
    IF k = 0 THEN {<< >>}
    ELSE LET shorter == SeqsUpTo(S, k - 1)
         IN  shorter \cup {Append(q, x) : q \in shorter, x \in S}

\* What get_all_values may return: nothing, or a header and data rows.
Sheets == {<< >>} \cup {<<Header>> \o q : q \in SeqsUpTo(RowSet, MaxRows)}

BuyingPowers == {Num(100000, 1)}

\* os.getenv(name): None, "" or a non-empty text.
EnvValues == {PyNone, << >>, <<"X">>}

EnvNames == {"GOOGLE_CREDS_JSON", "ALPACA_API_KEY", "ALPACA_API_SECRET"}

----------------------------------------------------------------------------
(* State. *)

VARIABLES
    env,                \* the process environment, per required name
    pc,                 \* position of the run
    rows,               \* run_bot: rows
    buying_power,       \* run_bot: buying_power
    row_idx,            \* run_bot: number of data rows consumed by the loop
    seen_symbols,       \* run_bot: seen_symbols
    orders_submitted,   \* run_bot: orders_submitted
    log,                \* history: the outcome of every row consumed
    call                \* the last call of the allocation functions

vars ==
    <<env, pc, rows, buying_power, row_idx, seen_symbols, orders_submitted,
      log, call>>

NoCall ==
    [fn |-> "none", buying_power |-> None, percent_down |-> None,
     icon |-> << >>, long_ma |-> None, price |-> None,
     sentiment_raw |-> << >>, result |-> None]

\* get_env_var testing for None alone.
EnvMissing_NoneOnly(name) == env[name] = PyNone

\* get_env_var raises.
EnvMissing(name) == env[name] = PyNone \/ env[name] = << >>

\* run_bot: cell(idx) of the row.
cell(row, idx) == IF idx < Len(row) THEN row[idx + 1] ELSE << >>

\* run_bot: symbol of the row.
SymbolOf(row) == Upper(Strip(cell(row, COL_TICKER)))

\* The call of compute_order_notional the loop body makes for the row.
CallFor(bp, row) ==
    [fn |-> "compute_order_notional",
     buying_power |-> bp,
     percent_down |-> safe_float(cell(row, COL_PCT_DOWN)),
     icon |-> cell(row, COL_ICON),
     long_ma |-> safe_float(cell(row, COL_LONG_MA)),
     price |-> safe_float(cell(row, COL_PRICE)),
     sentiment_raw |-> cell(row, COL_SENTIMENT),
     result |-> compute_order_notional(
                    bp,
                    safe_float(cell(row, COL_PCT_DOWN)),
                    cell(row, COL_ICON),
                    safe_float(cell(row, COL_LONG_MA)),
                    safe_float(cell(row, COL_PRICE)),
                    cell(row, COL_SENTIMENT))]

\* The loop body up to the order submission: which check stops the row, or
\* "order" with the unrounded notional.
RowDecision(bp, seen, row) ==
    LET symbol == SymbolOf(row)
        c == CallFor(bp, row)
    IN  IF symbol = << >> THEN [kind |-> "no_symbol", notional |-> None]
        ELSE IF symbol \in seen THEN [kind |-> "duplicate", notional |-> None]
        ELSE IF IsNone(c.price) \/ IsNone(c.percent_down) \/ IsNone(c.long_ma)
             THEN [kind |-> "missing_data", notional |-> None]
        ELSE IF IsNone(c.result)
             THEN [kind |-> "no_notional", notional |-> None]
        ELSE IF Lt(c.result, MIN_NOTIONAL)
             THEN [kind |-> "below_min", notional |-> c.result]
        ELSE [kind |-> "order", notional |-> c.result]

\* The compute_order_notional call is reached for the row.
ReachesCompute(kind) == kind \in {"no_notional", "below_min", "order"}

----------------------------------------------------------------------------
(* One run of the job: run_bot under the top-level handler. *)

Init ==
    /\ env \in [EnvNames -> EnvValues]
    /\ pc = "start"
    /\ rows = << >>
    /\ buying_power = None
    /\ row_idx = 0
    /\ seen_symbols = {}
    /\ orders_submitted = 0
    /\ log = << >>
    /\ call = NoCall

\* get_worksheet(); whatever it raises reaches the handler of __main__.
GetWorksheet ==
    /\ pc = "start"
    /\ \E ok \in BOOLEAN :
          pc' = IF EnvMissing("GOOGLE_CREDS_JSON") \/ ~ok
                THEN "aborted" ELSE "have_ws"
    /\ UNCHANGED <<env, rows, buying_power, row_idx, seen_symbols,
                   orders_submitted, log, call>>

\* get_alpaca_client()
GetAlpacaClient ==
    /\ pc = "have_ws"
    /\ \E ok \in BOOLEAN :
          pc' = IF EnvMissing("ALPACA_API_KEY")
                   \/ EnvMissing("ALPACA_API_SECRET") \/ ~ok
                THEN "aborted" ELSE "connected"
    /\ UNCHANGED <<env, rows, buying_power, row_idx, seen_symbols,
                   orders_submitted, log, call>>

\* run_bot from get_account() to the start of the loop.
FetchData ==
    /\ pc = "connected"
    /\ \E ok \in BOOLEAN, bp \in BuyingPowers, sheet \in Sheets :
          IF ~ok
          THEN /\ pc' = "aborted"
               /\ UNCHANGED <<rows, buying_power>>
          ELSE /\ buying_power' = bp
               /\ rows' = sheet
               /\ pc' = IF Len(sheet) < 2 THEN "no_data" ELSE "loop"
    /\ row_idx' = 0
    /\ seen_symbols' = {}
    /\ orders_submitted' = 0
    /\ UNCHANGED <<env, log, call>>

\* The row the loop is about to consume, and its number in the sheet.
InLoop == pc = "loop" /\ row_idx < Len(rows) - 1

CurrentRow == rows[row_idx + 2]

Entry(kind, d) ==
    [row |-> row_idx + 2, symbol |-> SymbolOf(CurrentRow), kind |-> kind,
     notional |-> d.notional,
     sent |-> IF kind \in {"submitted", "failed"}
              THEN Round2(d.notional) ELSE None]

\* One iteration that ends in a continue.
SkipRow ==
    /\ InLoop
    /\ LET d == RowDecision(buying_power, seen_symbols, CurrentRow)
       IN  /\ d.kind # "order"
           /\ log' = Append(log, Entry(d.kind, d))
           /\ call' = IF ReachesCompute(d.kind)
                      THEN CallFor(buying_power, CurrentRow) ELSE call
    /\ row_idx' = row_idx + 1
    /\ UNCHANGED <<env, pc, rows, buying_power, seen_symbols,
                   orders_submitted>>

\* SubmitOrderReturns without seen_symbols.add.
SubmitOrderReturns_NotMarked ==
    /\ InLoop
    /\ LET d == RowDecision(buying_power, seen_symbols, CurrentRow)
       IN  /\ d.kind = "order"
           /\ log' = Append(log, Entry("submitted", d))
    /\ call' = CallFor(buying_power, CurrentRow)
    /\ orders_submitted' = orders_submitted + 1
    /\ row_idx' = row_idx + 1
    /\ UNCHANGED <<env, pc, rows, buying_power, seen_symbols>>

\* One iteration whose submit_order returns.
SubmitOrderReturns ==
    /\ InLoop
    /\ LET d == RowDecision(buying_power, seen_symbols, CurrentRow)
       IN  /\ d.kind = "order"
           /\ log' = Append(log, Entry("submitted", d))
    /\ call' = CallFor(buying_power, CurrentRow)
    /\ orders_submitted' = orders_submitted + 1
    /\ seen_symbols' = seen_symbols \cup {SymbolOf(CurrentRow)}
    /\ row_idx' = row_idx + 1
    /\ UNCHANGED <<env, pc, rows, buying_power>>

\* SubmitOrderRaises without the try: the exception leaves run_bot.
SubmitOrderRaises_Propagates ==
    /\ InLoop
    /\ LET d == RowDecision(buying_power, seen_symbols, CurrentRow)
       IN  /\ d.kind = "order"
           /\ log' = Append(log, Entry("failed", d))
    /\ call' = CallFor(buying_power, CurrentRow)
    /\ pc' = "aborted"
    /\ UNCHANGED <<env, rows, buying_power, row_idx, seen_symbols,
                   orders_submitted>>

\* SubmitOrderRaises with the symbol marked seen before submit_order.
SubmitOrderRaises_MarksSeen ==
    /\ InLoop
    /\ LET d == RowDecision(buying_power, seen_symbols, CurrentRow)
       IN  /\ d.kind = "order"
           /\ log' = Append(log, Entry("failed", d))
    /\ call' = CallFor(buying_power, CurrentRow)
    /\ seen_symbols' = seen_symbols \cup {SymbolOf(CurrentRow)}
    /\ row_idx' = row_idx + 1
    /\ UNCHANGED <<env, pc, rows, buying_power, orders_submitted>>

\* One iteration whose submit_order raises: the except clause logs it.
SubmitOrderRaises ==
    /\ InLoop
    /\ LET d == RowDecision(buying_power, seen_symbols, CurrentRow)
       IN  /\ d.kind = "order"
           /\ log' = Append(log, Entry("failed", d))
    /\ call' = CallFor(buying_power, CurrentRow)
    /\ row_idx' = row_idx + 1
    /\ UNCHANGED <<env, pc, rows, buying_power, seen_symbols,
                   orders_submitted>>

\* The loop is exhausted: "Finished run".
Finish ==
    /\ pc = "loop"
    /\ row_idx = Len(rows) - 1
    /\ pc' = "finished"
    /\ UNCHANGED <<env, rows, buying_power, row_idx, seen_symbols,
                   orders_submitted, log, call>>

Next ==
    \/ GetWorksheet
    \/ GetAlpacaClient
    \/ FetchData
    \/ SkipRow
    \/ SubmitOrderReturns
    \/ SubmitOrderRaises
    \/ Finish

Spec == Init /\ [][Next]_vars

----------------------------------------------------------------------------
(* The allocation functions applied to drawn inputs. *)

PctSweep == {Num(k, 4) : k \in (-8)..(4 * MaxPct)} \cup {NaN}

CalcPcts == {Num(-1, 1), Num(0, 1), Num(10, 1), Num(25, 1), Num(60, 1),
             Num(151, 2), NaN}

CalcBuyingPowers == {Num(100000, 1), Num(20, 1)}

CalcIcons ==
    {PyNone, << >>, <<" ">>, <<Gem>>, <<" ", Gem, " ">>, <<Boom>>,
     <<Rocket>>, <<Sparkles>>, <<Chart>>, <<"X">>, <<Gem, Gem>>}

CalcLongMAs == {Num(110, 1), Num(50, 1), Num(-5, 1), NaN}

CalcPrices == {Num(100, 1), Num(200, 1), Num(0, 1), Num(-1, 1), NaN}

CalcSentiments ==
    {PyNone, << >>, <<" ">>, <<"a", "b", "c">>, <<"-", "3">>, <<"0">>,
     <<"0", ".", "1">>, <<"2">>, <<"n", "a", "n">>, <<"5", "0", "%">>,
     <<" ", ".", "5">>}

CalcInputs ==
    {[fn |-> "pending", buying_power |-> bp, percent_down |-> pd,
      icon |-> ic, long_ma |-> ma, price |-> pr, sentiment_raw |-> se,
      result |-> None] :
        bp \in CalcBuyingPowers, pd \in CalcPcts, ic \in CalcIcons,
        ma \in CalcLongMAs, pr \in CalcPrices, se \in CalcSentiments}

SweepInputs ==
    {[fn |-> "pending", buying_power |-> Num(100000, 1), percent_down |-> pd,
      icon |-> <<Gem>>, long_ma |-> Num(110, 1), price |-> Num(100, 1),
      sentiment_raw |-> <<"2">>, result |-> None] : pd \in PctSweep}

InitCalc ==
    /\ env = [name \in EnvNames |-> <<"X">>]
    /\ pc = "calc"
    /\ rows = << >>
    /\ buying_power = None
    /\ row_idx = 0
    /\ seen_symbols = {}
    /\ orders_submitted = 0
    /\ log = << >>
    /\ call \in CalcInputs \cup SweepInputs

CallBracket ==
    /\ pc = "calc"
    /\ call.fn = "pending"
    /\ call' = [call EXCEPT !.fn = "get_bracket_pct",
                            !.result = get_bracket_pct(call.percent_down)]
    /\ UNCHANGED <<env, pc, rows, buying_power, row_idx, seen_symbols,
                   orders_submitted, log>>

CallCompute ==
    /\ pc = "calc"
    /\ call.fn = "pending"
    /\ call' = [call EXCEPT
                  !.fn = "compute_order_notional",
                  !.result = compute_order_notional(
                                 call.buying_power, call.percent_down,
                                 call.icon, call.long_ma, call.price,
                                 call.sentiment_raw)]
    /\ UNCHANGED <<env, pc, rows, buying_power, row_idx, seen_symbols,
                   orders_submitted, log>>

NextCalc == CallBracket \/ CallCompute

SpecCalc == InitCalc /\ [][NextCalc]_vars

\* The run and the function calls side by side.
InitAll == Init \/ InitCalc

NextAll == Next \/ NextCalc

SpecAll == InitAll /\ [][NextAll]_vars

----------------------------------------------------------------------------
(* Vocabulary of the properties. *)

\* The row's order was handed to submit_order.
Handed(e) == e.kind \in {"submitted", "failed"}

\* The row passes every validation of the loop body, duplicates aside.
Qualifies(row) == RowDecision(buying_power, {}, row).kind = "order"

\* log[j] is the entry of sheet row j + 1, held at rows[j + 1].
RowOfEntry(j) == rows[j + 1]

\* The entries of orders whose submission returned.
Returned == {i \in 1..Len(log) : log[i].kind = "submitted"}

\* The bracket table as the documentation states it, on a number n/d.
ClaimedBracket(pd) ==
    IF pd.n < 0 THEN None
    ELSE IF pd.n <= 25 * pd.d THEN Num(5, 100)
    ELSE IF pd.n <= 50 * pd.d THEN Num(10, 100)
    ELSE IF pd.n <= 75 * pd.d THEN Num(15, 100)
    ELSE Num(20, 100)

\* The sentiment multiplier as stated: the parsed value when positive, else 0.1.
ClaimedSentiment(raw) ==
    LET s == safe_float(raw)
    IN  IF s.k = "num" /\ s.n > 0 THEN s ELSE Num(1, 10)

IconUnrecognised(icon) == icon = PyNone \/ Strip(icon) \notin IconKeys

\* The inputs of a call pass every check of compute_order_notional.
PassesChecks(c) ==
    /\ c.percent_down.k = "num" /\ c.percent_down.n >= 0
    /\ ~IconUnrecognised(c.icon)
    /\ c.price.k = "num" /\ c.price.n > 0
    /\ ~IsNone(c.long_ma)

\* buyingPower * bracket * icon * longMA * sentiment / price
ClaimedNotional(c) ==
    Div(Mul(Mul(Mul(Mul(c.buying_power, ClaimedBracket(c.percent_down)),
                    ICON_MULTIPLIERS[Strip(c.icon)]),
                c.long_ma),
            ClaimedSentiment(c.sentiment_raw)),
        c.price)

\* r is x rounded to 2 decimals: a whole number of hundredths within 0.005.
IsRounded2(r, x) ==
    IF IsNaN(x) THEN IsNaN(r)
    ELSE /\ r.k = "num"
         /\ 100 % r.d = 0
         /\ 200 * Abs(r.n * x.d - x.n * r.d) <= r.d * x.d

----------------------------------------------------------------------------
(* C1: within one run at most one order per normalized symbol is handed to *)
(* submit_order, and it is the order of the first row of that symbol that  *)
(* passes all validation; a failed submission is not retried through a     *)
(* later row of the same symbol.                                           *)
C1_OneOrderPerSymbol ==
    \A i \in 1..Len(log) :
        Handed(log[i]) =>
            /\ \A j \in 1..Len(log) :
                  (Handed(log[j]) /\ log[j].symbol = log[i].symbol) => j = i
            /\ \A k \in 1..(i - 1) :
                  SymbolOf(RowOfEntry(k)) = log[i].symbol
                      => ~Qualifies(RowOfEntry(k))

(* C2: once a submit_order has raised, the run is not aborted: it is in    *)
(* the loop, where a further iteration or "Finished run" is the next step, *)
(* or at its normal end with every data row consumed; and every consumed   *)
(* row was handed to submit_order exactly when it qualifies and no earlier *)
(* order of its symbol had returned.                                       *)
C2_FailureDoesNotAbort ==
    (\E i \in 1..Len(log) : log[i].kind = "failed") =>
        /\ pc \in {"loop", "finished"}
        /\ pc = "loop" => (InLoop \/ row_idx = Len(rows) - 1)
        /\ pc = "finished" => Len(log) = Len(rows) - 1
        /\ \A j \in 1..Len(log) :
              /\ log[j].row = j + 1
              /\ Handed(log[j]) <=>
                    /\ Qualifies(RowOfEntry(j))
                    /\ ~\E k \in 1..(j - 1) :
                          /\ log[k].kind = "submitted"
                          /\ log[k].symbol = SymbolOf(RowOfEntry(j))

C2_Witness ==
    /\ pc = "finished"
    /\ \E i, j \in 1..Len(log) :
          /\ i < j
          /\ log[i].kind = "failed"
          /\ log[j].kind = "submitted"
          /\ log[j].symbol # log[i].symbol

(* C3: when a required environment variable is absent or empty, or the     *)
(* sheet or the brokerage cannot be reached, the run ends in the top-level *)
(* handler before the loop: no row is consumed and no order submitted.     *)
C3_StartupFailureAbortsBeforeRows ==
    LET absent(name) == env[name] = PyNone \/ env[name] = << >>
    IN  /\ absent("GOOGLE_CREDS_JSON") => pc \in {"start", "aborted"}
        /\ (absent("ALPACA_API_KEY") \/ absent("ALPACA_API_SECRET"))
              => pc \in {"start", "have_ws", "aborted"}
        /\ pc \in {"start", "have_ws", "connected", "aborted"}
              => /\ log = << >>
                 /\ rows = << >>
                 /\ orders_submitted = 0
                 /\ call = NoCall

C3_Witness ==
    /\ pc = "aborted"
    /\ env["GOOGLE_CREDS_JSON"] = <<"X">>
    /\ env["ALPACA_API_KEY"] = <<"X">>
    /\ env["ALPACA_API_SECRET"] = << >>

(* C4: a row whose unrounded notional is below 1.0 is never handed to      *)
(* submit_order, a notional of exactly 1.0 is not skipped by the floor,    *)
(* and every notional handed to submit_order is >= 1.0.                    *)
C4_HandedNotionalAtLeastFloor ==
    \A i \in 1..Len(log) :
        /\ (log[i].notional.k = "num" /\ log[i].notional.n < log[i].notional.d)
              => ~Handed(log[i])
        /\ log[i].kind = "below_min" => log[i].notional # Num(1, 1)
        /\ Handed(log[i])
              => /\ log[i].notional.k = "num"
                 /\ log[i].notional.n >= log[i].notional.d

(* C5: on every number get_bracket_pct returns the documented bracket:     *)
(* null below 0, 0.05 on [0, 25], 0.10 on (25, 50], 0.15 on (50, 75],      *)
(* 0.20 above 75.                                                          *)
C5_BracketMapping ==
    (call.fn = "get_bracket_pct" /\ call.percent_down.k = "num")
        => call.result = ClaimedBracket(call.percent_down)

C5_Witness ==
    /\ call.fn = "get_bracket_pct"
    /\ call.percent_down = Num(75, 1)
    /\ call.result = Num(15, 100)

(* C6: compute_order_notional returns null whenever the trimmed icon is    *)
(* not one of the five keys, whatever the other inputs; no row handed to   *)
(* submit_order lacks the icon column or holds an unrecognised icon.       *)
C6_UnknownIconNeverOrdered ==
    /\ (call.fn = "compute_order_notional" /\ IconUnrecognised(call.icon))
          => IsNone(call.result)
    /\ \A i \in 1..Len(log) :
          Handed(log[i]) =>
              /\ Len(RowOfEntry(i)) > COL_ICON
              /\ ~IconUnrecognised(RowOfEntry(i)[COL_ICON + 1])

C6_Witness ==
    \E i \in 1..Len(log) :
        /\ log[i].kind = "no_notional"
        /\ Len(RowOfEntry(i)) <= COL_ICON
        /\ call.fn = "compute_order_notional"
        /\ call.icon = << >>

(* C7: for fixed other inputs, a sentiment that is absent, blank,          *)
(* unparseable or not positive gives the result of sentiment "0.1"; a      *)
(* sentiment parsing to a positive value s gives s times the result of     *)
(* sentiment "1".                                                          *)
C7_SentimentDefault ==
    call.fn = "compute_order_notional" =>
        LET s == safe_float(call.sentiment_raw)
            with(raw) ==
                compute_order_notional(call.buying_power, call.percent_down,
                                       call.icon, call.long_ma, call.price, raw)
        IN  IF s.k = "num" /\ s.n > 0
            THEN call.result =
                    IF IsNone(with(<<"1">>)) THEN None
                    ELSE Mul(s, with(<<"1">>))
            ELSE call.result = with(<<"0", ".", "1">>)

C7_Witness ==
    /\ call.fn = "compute_order_notional"
    /\ call.sentiment_raw = <<"-", "3">>
    /\ call.result.k = "num"
    /\ call.result.n > 0

(* C8: on inputs that pass every check compute_order_notional returns      *)
(* buyingPower * bracket * iconMultiplier * (longMA / price) * sentiment,  *)
(* 11000 on the documented example, and the notional handed to             *)
(* submit_order is that value rounded to 2 decimals.                       *)
C8_NotionalFormula ==
    /\ (call.fn = "compute_order_notional" /\ PassesChecks(call))
          => call.result = ClaimedNotional(call)
    /\ ( /\ call.fn = "compute_order_notional"
         /\ call.buying_power = Num(100000, 1)
         /\ call.percent_down = Num(10, 1)
         /\ call.icon = <<Gem>>
         /\ call.long_ma = Num(110, 1)
         /\ call.price = Num(100, 1)
         /\ call.sentiment_raw = <<"2">> )
          => call.result = Num(11000, 1)
    /\ \A i \in 1..Len(log) :
          LET c == CallFor(buying_power, RowOfEntry(i))
          IN  (Handed(log[i]) /\ PassesChecks(c))
                  => /\ log[i].notional = ClaimedNotional(c)
                     /\ IsRounded2(log[i].sent, log[i].notional)

C8_Witness ==
    \E i \in 1..Len(log) :
        /\ log[i].kind = "submitted"
        /\ log[i].notional = Num(4500, 7)
        /\ log[i].sent = Num(64286, 100)

(* C9: an iteration that skips its row, or whose submit_order raises,      *)
(* leaves seen_symbols and orders_submitted as they were; a row is skipped *)
(* as a duplicate only after an order of its symbol has returned.          *)
C9_SkipOrFailureLeavesState ==
    /\ [][(Len(log') = Len(log) + 1 /\ log'[Len(log')].kind # "submitted")
            => /\ seen_symbols' = seen_symbols
               /\ orders_submitted' = orders_submitted]_vars
    /\ [](\A j \in 1..Len(log) :
            log[j].kind = "duplicate" =>
                \E k \in 1..(j - 1) :
                    /\ log[k].kind = "submitted"
                    /\ log[k].symbol = log[j].symbol)

C9_Witness ==
    /\ Len(log) >= 3
    /\ log[1].kind = "submitted"
    /\ log[2].kind = "failed"
    /\ log[3].kind = "below_min"
    /\ seen_symbols = {log[1].symbol}
    /\ orders_submitted = 1

(* C10: between rows orders_submitted is the size of seen_symbols and the  *)
(* number of returned submissions, seen_symbols holds exactly the symbols  *)
(* of returned submissions, and no symbol has two of them.                 *)
C10_CounterMatchesSeen ==
    /\ orders_submitted = Cardinality(seen_symbols)
    /\ orders_submitted = Cardinality(Returned)
    /\ seen_symbols = {log[i].symbol : i \in Returned}
    /\ \A i, j \in Returned : log[i].symbol = log[j].symbol => i = j

C10_Witness ==
    /\ orders_submitted = 2
    /\ \E i \in 1..Len(log) : log[i].kind = "duplicate"

====
